---- MODULE Spec2Model ----
(***************************************************************************)
(* Usage-billing service (darellkoh/grady): deterministic idempotency key  *)
(* derivation, at-most-once persistence under the request_id uniqueness    *)
(* constraint, and the server-side outcome classification.                 *)
(*                                                                         *)
(* Strings are sequences of one-character strings.  JavaScript numbers are *)
(* fixed-point integers counting units of 10^-(PriceScale+1), one decimal  *)
(* digit finer than the DECIMAL(10,4) column, so that the column's         *)
(* rounding is visible.                                                    *)
(***************************************************************************)
EXTENDS Integers, Sequences, FiniteSets, TLC

VARIABLES
    customers,      \* rows of table customers
    usage_records,  \* rows of table usage_records
    reqs,           \* per HTTP request: handler position, body, locals, response
    probe,          \* inputs/outputs of direct calls of the pure utilities
    client          \* one call of BillingSystemClient: attempts made, outcome

vars == <<customers, usage_records, reqs, probe, client>>

(***************************************************************************)
(* Bounds                                                                  *)
(***************************************************************************)
MaxRequests == 2
\* longest service label passed to toServiceCode directly
MaxLabelLen == 4

(***************************************************************************)
(* Characters and strings                                                  *)
(***************************************************************************)
Lowers == {"a", "b", "c", "d"}
Uppers == {"A", "B", "C", "D"}
DigitChar == <<"0", "1", "2", "3", "4", "5", "6", "7", "8", "9">>
Digits == {DigitChar[i] : i \in 1..10}
Alnum == Lowers \cup Uppers \cup Digits

\* String.prototype.toUpperCase, per character
UpperChar(c) ==
    CASE c = "a" -> "A" [] c = "b" -> "B" [] c = "c" -> "C" [] c = "d" -> "D"
      [] OTHER -> c

\* canonical (lower-case) output form of a PostgreSQL uuid value, per character
LowerChar(c) ==
    CASE c = "A" -> "a" [] c = "B" -> "b" [] c = "C" -> "c" [] c = "D" -> "d"
      [] OTHER -> c

\* String.prototype.toUpperCase
ToUpperCase(s) == [i \in 1..Len(s) |-> UpperChar(s[i])]

RECURSIVE Join(_, _)
\* Array.prototype.join / template-literal concatenation with a separator
Join(parts, sep) ==
    IF Len(parts) = 0 THEN <<>>
    ELSE IF Len(parts) = 1 THEN parts[1]
    ELSE parts[1] \o sep \o Join(Tail(parts), sep)

(***************************************************************************)
(* Numbers                                                                 *)
(***************************************************************************)
PriceScale == 4
Unit == 10 ^ (PriceScale + 1)

IsInteger(n) == n % Unit = 0

RECURSIVE NatToString(_)
NatToString(n) ==
    IF n < 10 THEN <<DigitChar[n + 1]>>
    ELSE NatToString(n \div 10) \o <<DigitChar[(n % 10) + 1]>>

RECURSIVE FracDigits(_, _)
\* the fraction f (0 <= f < 10^w) as exactly w decimal digits
FracDigits(f, w) ==
    IF w = 0 THEN <<>>
    ELSE FracDigits(f \div 10, w - 1) \o <<DigitChar[(f % 10) + 1]>>

RECURSIVE StripTrailingZeros(_)
StripTrailingZeros(s) ==
    IF Len(s) > 0 /\ s[Len(s)] = "0"
    THEN StripTrailingZeros(SubSeq(s, 1, Len(s) - 1))
    ELSE s

\* Number::toString as used by the template literal `${n}`: shortest decimal
\* form, no exponent in the modelled range
NumberToString(n) ==
    LET a == IF n < 0 THEN -n ELSE n
        frac == StripTrailingZeros(FracDigits(a % Unit, PriceScale + 1))
    IN  (IF n < 0 THEN <<"-">> ELSE <<>>)
        \o NatToString(a \div Unit)
        \o (IF Len(frac) = 0 THEN <<>> ELSE <<".">> \o frac)

\* a value stored into DECIMAL(10, 4) and read back through Number(...):
\* rounded half away from zero to PriceScale decimals
PgNumeric(n) ==
    IF n >= 0 THEN ((n + 5) \div 10) * 10 ELSE -(((-n + 5) \div 10) * 10)

(***************************************************************************)
(* utils: toServiceCode, generateRequestId                                 *)
(***************************************************************************)
\* .replace(/[^a-z0-9]/gi, '_')
ReplaceNonAlphanumeric(s) ==
    [i \in 1..Len(s) |-> IF s[i] \in Alnum THEN s[i] ELSE "_"]

RECURSIVE CollapseUnderscores(_)
\* .replace(/_+/g, '_')
CollapseUnderscores(s) ==
    IF Len(s) <= 1 THEN s
    ELSE IF s[1] = "_" /\ s[2] = "_" THEN CollapseUnderscores(Tail(s))
    ELSE <<s[1]>> \o CollapseUnderscores(Tail(s))

\* .replace(/^_|_$/g, '')
StripLeadingTrailingUnderscores(s) ==
    LET a == IF Len(s) > 0 /\ s[1] = "_" THEN Tail(s) ELSE s
    IN  IF Len(a) > 0 /\ a[Len(a)] = "_" THEN SubSeq(a, 1, Len(a) - 1) ELSE a

\* mutant of toServiceCode: runs of underscores are not collapsed
toServiceCode_NoCollapse(service) ==
    StripLeadingTrailingUnderscores(ReplaceNonAlphanumeric(ToUpperCase(service)))

\* mutant of toServiceCode: the edges are stripped before runs are collapsed
toServiceCode_StripFirst(service) ==
    CollapseUnderscores(
        StripLeadingTrailingUnderscores(
            ReplaceNonAlphanumeric(ToUpperCase(service))))

toServiceCode(service) ==
    IF service = <<>> THEN <<>>
    ELSE StripLeadingTrailingUnderscores(
             CollapseUnderscores(
                 ReplaceNonAlphanumeric(ToUpperCase(service))))

\* crypto.createHash('sha256').update(data).digest('hex'), taken as injective:
\* the digest is the tagged pre-image
Sha256(data) == <<"sha256">> \o data

\* mutant of RequestIdData: the service label left out of the hashed string
RequestIdData_WithoutService(params) ==
    Join(<<params.customerId, params.serviceCode,
           NumberToString(params.unitsConsumed),
           NumberToString(params.pricePerUnit)>>, <<":">>)

\* mutant of RequestIdData: unitsConsumed left out of the hashed string
RequestIdData_WithoutUnits(params) ==
    Join(<<params.customerId, params.service, params.serviceCode,
           NumberToString(params.pricePerUnit)>>, <<":">>)

\* the colon-joined string that generateRequestId hashes
RequestIdData(params) ==
    Join(<<params.customerId, params.service, params.serviceCode,
           NumberToString(params.unitsConsumed),
           NumberToString(params.pricePerUnit)>>, <<":">>)

\* mutant of generateRequestId: the time of the call (counted in answered
\* requests) is hashed with the fields
generateRequestId_Timestamped(params) ==
    Sha256(Join(<<params.customerId, params.service, params.serviceCode,
                  NumberToString(params.unitsConsumed),
                  NumberToString(params.pricePerUnit),
                  NatToString(Cardinality({i \in DOMAIN reqs : reqs[i].pc = "done"}))>>,
                <<":">>))

generateRequestId(params) == Sha256(RequestIdData(params))

(***************************************************************************)
(* JSON values of a request body, and the zod schemas                      *)
(***************************************************************************)
Str(s) == [k |-> "str", s |-> s, n |-> 0]
Num(n) == [k |-> "num", s |-> <<>>, n |-> n]
Absent == [k |-> "absent", s |-> <<>>, n |-> 0]

MaxStringLength == 255

HexChars == Digits \cup Lowers \cup Uppers

\* z.string().uuid(): hexadecimal groups joined by hyphens, either letter case
\* (the 8-4-4-4-12 layout shortened to two groups of one digit)
IsUuid(s) ==
    /\ Len(s) = 3
    /\ s[1] \in HexChars
    /\ s[2] = "-"
    /\ s[3] \in HexChars

ZodUuid(v) == v.k = "str" /\ IsUuid(v.s)
\* z.string().min(1).max(255)
ZodBoundedString(v) == v.k = "str" /\ Len(v.s) >= 1 /\ Len(v.s) <= MaxStringLength
\* z.number().int().positive()
ZodPositiveInt(v) == v.k = "num" /\ IsInteger(v.n) /\ v.n > 0
\* z.number().positive()
ZodPositive(v) == v.k = "num" /\ v.n > 0

\* mutant of createUsageRecordTypeIssues: unitsConsumed only has to be a number
createUsageRecordTypeIssues_UnitsUnchecked(body) ==
    (IF ZodUuid(body.customerId) THEN {} ELSE {"customerId"})
    \cup (IF ZodBoundedString(body.service) THEN {} ELSE {"service"})
    \cup (IF body.unitsConsumed.k = "num" THEN {} ELSE {"unitsConsumed"})
    \cup (IF ZodPositive(body.pricePerUnit) THEN {} ELSE {"pricePerUnit"})

\* createUsageRecordType.parse: the paths of the issues (empty: parse succeeds)
createUsageRecordTypeIssues(body) ==
    (IF ZodUuid(body.customerId) THEN {} ELSE {"customerId"})
    \cup (IF ZodBoundedString(body.service) THEN {} ELSE {"service"})
    \cup (IF ZodPositiveInt(body.unitsConsumed) THEN {} ELSE {"unitsConsumed"})
    \cup (IF ZodPositive(body.pricePerUnit) THEN {} ELSE {"pricePerUnit"})

\* usageRecordType.parse of the record returned by Database.createUsageRecord
\* (id and createdAt come from the storage engine and are always well-formed)
usageRecordTypeIssues(rec) ==
    (IF IsUuid(rec.customerId) THEN {} ELSE {"customerId"})
    \cup (IF Len(rec.service) >= 1 /\ Len(rec.service) <= MaxStringLength
          THEN {} ELSE {"service"})
    \cup (IF Len(rec.serviceCode) >= 1 /\ Len(rec.serviceCode) <= MaxStringLength
          THEN {} ELSE {"serviceCode"})
    \cup (IF IsInteger(rec.unitsConsumed) /\ rec.unitsConsumed > 0
          THEN {} ELSE {"unitsConsumed"})
    \cup (IF rec.pricePerUnit > 0 THEN {} ELSE {"pricePerUnit"})

\* createCustomerType.parse
\* mutant of createCustomerTypeIssues: the name is not checked
createCustomerTypeIssues_NameUnchecked(body) == {}

createCustomerTypeIssues(body) ==
    IF ZodBoundedString(body.name) THEN {} ELSE {"name"}

(***************************************************************************)
(* Errors                                                                  *)
(***************************************************************************)
NoDetails == [kind |-> "none", fields |-> {}, requestId |-> <<>>, cause |-> "none"]
FieldDetails(fields) == [NoDetails EXCEPT !.kind = "fields", !.fields = fields]
RequestIdDetails(id) == [NoDetails EXCEPT !.kind = "requestId", !.requestId = id]
CauseDetails(cause) == [NoDetails EXCEPT !.kind = "cause", !.cause = cause]

Msg(text, arg) == [text |-> text, arg |-> arg]

AppError(class, statusCode, message, code, details) ==
    [class |-> class, isAppError |-> TRUE, statusCode |-> statusCode,
     message |-> message, code |-> code, details |-> details]

ValidationError(message, details) ==
    AppError("ValidationError", 400, message, "BAD_REQUEST", details)
NotFoundError(message) ==
    AppError("NotFoundError", 404, message, "NOT_FOUND", NoDetails)
InternalServerError(message) ==
    AppError("InternalServerError", 500, message, "INTERNAL_SERVER_ERROR", NoDetails)
DatabaseError(message, details) ==
    AppError("DatabaseError", 500, message, "DATABASE_ERROR", details)
DuplicateRecordError(message, details) ==
    AppError("DuplicateRecordError", 409, message, "DUPLICATE_RECORD", details)

NetworkError(message) ==
    AppError("NetworkError", 503, message, "SERVICE_UNAVAILABLE", NoDetails)
RequestTimeoutError(message) ==
    AppError("RequestTimeoutError", 504, message, "GATEWAY_TIMEOUT", NoDetails)
InvalidResponseError(message) ==
    AppError("InvalidResponseError", 502, message, "BAD_GATEWAY", NoDetails)

\* new Error(message), with the code the client attaches to it ("" for none)
PlainError(message, code) ==
    [class |-> "Error", isAppError |-> FALSE, statusCode |-> 0,
     message |-> message, code |-> code, details |-> NoDetails]

\* the SyntaxError express.json() passes to next() for a body that is not JSON
JsonSyntaxError ==
    [class |-> "SyntaxError", isAppError |-> FALSE, statusCode |-> 400,
     message |-> Msg("Unexpected token", <<>>), code |-> "", details |-> NoDetails]

\* a ZodError thrown by parse: not an AppError
ZodError(issues) ==
    [class |-> "ZodError", isAppError |-> FALSE, statusCode |-> 0,
     message |-> Msg("zod", <<>>), code |-> "", details |-> FieldDetails(issues)]

(***************************************************************************)
(* ApiResponse and the error-handling middleware                           *)
(***************************************************************************)
NoData == [kind |-> "none"]
NoResponse ==
    [status |-> 0, bodyStatus |-> "", statusCode |-> 0, code |-> "",
     message |-> Msg("", <<>>), details |-> NoDetails, data |-> NoData]

\* ApiResponse.created(data).send(res)
ApiResponseCreated(data) ==
    [NoResponse EXCEPT !.status = 201, !.bodyStatus = "success",
                       !.statusCode = 201, !.data = data]

\* ApiResponse.error(error, res)
ApiResponseError(error) ==
    [NoResponse EXCEPT !.status = error.statusCode, !.bodyStatus = "error",
                       !.statusCode = error.statusCode, !.code = error.code,
                       !.message = error.message, !.details = error.details]

\* mutant of ErrorMiddleware: a ZodError is handled as an unexpected error
ErrorMiddleware_ZodUnhandled(err) ==
    IF err.isAppError
    THEN ApiResponseError(err)
    ELSE ApiResponseError(
             InternalServerError(Msg("An unexpected error occurred", <<>>)))

\* app.use((err, req, res, next) => ...)
ErrorMiddleware(err) ==
    IF err.class = "ZodError"
    THEN ApiResponseError(
             ValidationError(Msg("Invalid request data", <<>>),
                             FieldDetails(err.details.fields)))
    ELSE IF err.isAppError
    THEN ApiResponseError(err)
    ELSE ApiResponseError(
             InternalServerError(Msg("An unexpected error occurred", <<>>)))

(***************************************************************************)
(* Storage: the schema of customers and usage_records, and class Database  *)
(***************************************************************************)
Null == [kind |-> "null"]

\* uuid_generate_v4() for the k-th row of a table whose ids start with `prefix`
\* (fresh: the generator is taken never to repeat a value by itself)
UuidGenerate(prefix, k) == <<prefix, "-", DigitChar[k + 1]>>

\* the uuid column type: input in either letter case, one canonical value
PgUuid(s) == [i \in 1..Len(s) |-> LowerChar(s[i])]

\* INSERT INTO customers (name) VALUES ('Alice'), ('Bob'), ('Taylor')
SampleCustomers ==
    { [id |-> UuidGenerate("a", 1), name |-> <<"A", "l", "i", "c", "e">>],
      [id |-> UuidGenerate("a", 2), name |-> <<"B", "o", "b">>],
      [id |-> UuidGenerate("a", 3), name |-> <<"T", "a", "y", "l", "o", "r">>] }

\* what the storage engine can do to a query besides executing it
StorageFaults == {"none", "connection", "id_collision"}

PgOk(rows) == [code |-> "ok", constraint |-> "", rows |-> rows]
PgFail(code, constraint) == [code |-> code, constraint |-> constraint, rows |-> {}]

\* pool.query('SELECT * FROM customers WHERE id = $1', [id])
SelectCustomer(id, fault) ==
    IF fault = "connection" THEN PgFail("", "")
    ELSE IF ~IsUuid(id) THEN PgFail("22P02", "")
    ELSE PgOk({c \in customers : c.id = PgUuid(id)})

\* mutant of getCustomer: a missing row is raised as an error
getCustomer_AbsentIsError(id, fault) ==
    LET result == SelectCustomer(id, fault)
    IN  IF result.code # "ok" \/ result.rows = {}
        THEN [ok |-> FALSE, value |-> Null, pg |-> result,
              error |-> DatabaseError(Msg("Failed to get customer", <<>>),
                                      CauseDetails(result.code))]
        ELSE [ok |-> TRUE, value |-> CHOOSE c \in result.rows : TRUE,
              pg |-> result, error |-> Null]

\* mutant of getCustomer: a failed query is answered like an empty result
getCustomer_FailureIsNull(id, fault) ==
    LET result == SelectCustomer(id, fault)
    IN  IF result.code # "ok" \/ result.rows = {}
        THEN [ok |-> TRUE, value |-> Null, pg |-> result, error |-> Null]
        ELSE [ok |-> TRUE, value |-> CHOOSE c \in result.rows : TRUE,
              pg |-> result, error |-> Null]

\* Database.getCustomer
getCustomer(id, fault) ==
    LET result == SelectCustomer(id, fault)
    IN  IF result.code # "ok"
        THEN [ok |-> FALSE, value |-> Null, pg |-> result,
              error |-> DatabaseError(Msg("Failed to get customer", <<>>),
                                      CauseDetails(result.code))]
        ELSE IF result.rows = {}
        THEN [ok |-> TRUE, value |-> Null, pg |-> result, error |-> Null]
        ELSE [ok |-> TRUE, value |-> CHOOSE c \in result.rows : TRUE,
              pg |-> result, error |-> Null]

\* mutant of UsageRow: the service column receives the service code
UsageRow_ServiceNormalized(record) ==
    [id |-> UuidGenerate("d", Cardinality(usage_records) + 1),
     customer_id |-> PgUuid(record.customerId),
     service |-> record.serviceCode,
     service_code |-> record.serviceCode,
     units_consumed |-> record.unitsConsumed,
     price_per_unit |-> PgNumeric(record.pricePerUnit),
     request_id |-> record.requestId]

\* the row INSERT INTO usage_records builds from its six parameters
UsageRow(record) ==
    [id |-> UuidGenerate("d", Cardinality(usage_records) + 1),
     customer_id |-> PgUuid(record.customerId),
     service |-> record.service,
     service_code |-> record.serviceCode,
     units_consumed |-> record.unitsConsumed,
     price_per_unit |-> PgNumeric(record.pricePerUnit),
     request_id |-> record.requestId]

\* CHECK (units_consumed > 0), CHECK (price_per_unit > 0)
ChecksHold(row) == row.units_consumed > 0 /\ row.price_per_unit > 0

\* mutant of RequestIdTaken: request_id carries no UNIQUE constraint
RequestIdTaken_NoConstraint(row) == FALSE

\* request_id VARCHAR(255) UNIQUE
RequestIdTaken(row) == \E u \in usage_records : u.request_id = row.request_id

\* customer_id UUID NOT NULL REFERENCES customers(id)
CustomerReferenced(row) == \E c \in customers : c.id = row.customer_id

\* pool.query(INSERT INTO usage_records ... RETURNING *): the statement is
\* atomic; it either adds exactly the returned row or adds nothing
InsertUsageRecord(record, fault) ==
    LET row == UsageRow(record)
    IN  IF fault = "connection" THEN PgFail("", "")
        ELSE IF ~IsUuid(record.customerId) THEN PgFail("22P02", "")
        ELSE IF ~ChecksHold(row) THEN PgFail("23514", "usage_records_check")
        ELSE IF fault = "id_collision" THEN PgFail("23505", "usage_records_pkey")
        ELSE IF RequestIdTaken(row)
        THEN PgFail("23505", "usage_records_request_id_key")
        ELSE IF ~CustomerReferenced(row)
        THEN PgFail("23503", "usage_records_customer_id_fkey")
        ELSE PgOk({row})

\* the catch block of Database.createUsageRecord
createUsageRecordCatch(record, pgError) ==
    IF pgError.code = "23505"
    THEN DuplicateRecordError(Msg("Usage record already exists", <<>>),
                              RequestIdDetails(record.requestId))
    ELSE DatabaseError(Msg("Failed to create usage record", <<>>),
                       CauseDetails(pgError.code))

\* the UsageRecord that Database.createUsageRecord returns for result.rows[0]
UsageRecordOf(newRecord) ==
    [id |-> newRecord.id,
     customerId |-> newRecord.customer_id,
     service |-> newRecord.service,
     serviceCode |-> newRecord.service_code,
     unitsConsumed |-> newRecord.units_consumed,
     pricePerUnit |-> newRecord.price_per_unit,
     requestId |-> newRecord.request_id]

\* Database.createUsageRecord
createUsageRecord(record, fault) ==
    LET result == InsertUsageRecord(record, fault)
    IN  IF result.code = "ok"
        THEN [ok |-> TRUE, rows |-> result.rows, pg |-> result, error |-> Null,
              value |-> UsageRecordOf(CHOOSE r \in result.rows : TRUE)]
        ELSE [ok |-> FALSE, rows |-> {}, pg |-> result, value |-> Null,
              error |-> createUsageRecordCatch(record, result)]

\* pool.query(INSERT INTO customers (name) VALUES ($1) RETURNING *)
InsertCustomer(input, fault) ==
    IF fault = "connection" THEN PgFail("", "")
    ELSE PgOk({[id |-> UuidGenerate("c", Cardinality(customers \ SampleCustomers) + 1),
                name |-> input.name]})

\* Database.createCustomer
createCustomer(input, fault) ==
    LET result == InsertCustomer(input, fault)
    IN  IF result.code = "ok"
        THEN [ok |-> TRUE, rows |-> result.rows, pg |-> result, error |-> Null,
              value |-> CHOOSE r \in result.rows : TRUE]
        ELSE [ok |-> FALSE, rows |-> {}, pg |-> result, value |-> Null,
              error |-> DatabaseError(Msg("Failed to create customer", <<>>),
                                      CauseDetails(result.code))]

(***************************************************************************)
(* Request inputs                                                          *)
(***************************************************************************)
Requests == 1..MaxRequests

Half == Unit \div 2

CustomerIdInputs ==
    { Str(UuidGenerate("a", 1)),       \* a stored sample customer
      Str(UuidGenerate("c", 1)),       \* the first customer POST /customers creates
      Str(<<"z", "z">>) }              \* not a UUID
ServiceInputs ==
    { Str(<<"d", "b">>), Str(<<" ", "d", "b">>), Str(<<"!">>), Str(<<>>) }
UnitsInputs == { Num(Unit), Num(0), Num(-Unit), Num(Unit + Half), Str(<<"1">>) }
PriceInputs == { Num(Half), Num(1), Num(0), Num(-Half), Str(<<"0", ".", "5">>) }
NameInputs ==
    { Str(<<"A", "l">>), Str(<<>>), Absent,
      Str([k \in 1..(MaxStringLength + 1) |-> "a"]) }    \* one character too long

UsageBody(customerId, service, unitsConsumed, pricePerUnit) ==
    [customerId |-> customerId, service |-> service,
     unitsConsumed |-> unitsConsumed, pricePerUnit |-> pricePerUnit,
     name |-> Absent]
CustomerBody(name) ==
    [customerId |-> Absent, service |-> Absent, unitsConsumed |-> Absent,
     pricePerUnit |-> Absent, name |-> name]
EmptyBody == CustomerBody(Absent)

AllUsageBodies ==
    { UsageBody(c, s, u, p) : c \in CustomerIdInputs, s \in ServiceInputs,
                              u \in UnitsInputs, p \in PriceInputs }
BaseUsageBody ==
    UsageBody(Str(UuidGenerate("a", 1)), Str(<<"d", "b">>), Num(Unit), Num(Half))

\* the bodies sent to POST /usage: every body that passes validation, every
\* body that differs from the base body in one field, and the body in which
\* every field is invalid
UsageBodies ==
    { b \in AllUsageBodies :
        \/ createUsageRecordTypeIssues(b) = {}
        \/ Cardinality({f \in {"customerId", "service", "unitsConsumed", "pricePerUnit"} :
                           b[f] # BaseUsageBody[f]}) = 1
        \/ Cardinality(createUsageRecordTypeIssues(b)) = 4 }

\* the base body, and the base body with the customer's UUID in upper case
AliasBodies ==
    { BaseUsageBody,
      [BaseUsageBody EXCEPT !.customerId = Str(ToUpperCase(UuidGenerate("a", 1)))] }

(***************************************************************************)
(* The request handlers of the server                                      *)
(***************************************************************************)
IdleRequest ==
    [route |-> "", pc |-> "idle", body |-> EmptyBody,
     serviceCode |-> <<>>, requestId |-> <<>>, lookup |-> "", customer |-> Null,
     queries |-> <<>>, pg |-> PgOk({}), thrown |-> Null, inserted |-> {},
     created |-> Null,
     faulted |-> FALSE, after |-> {}, resp |-> NoResponse]

\* requests that have been answered
Answered == {j \in DOMAIN reqs : reqs[j].pc = "done"}

\* the destructured fields of validatedData
ValidatedData(body) ==
    [customerId |-> body.customerId.s, service |-> body.service.s,
     unitsConsumed |-> body.unitsConsumed.n, pricePerUnit |-> body.pricePerUnit.n]

\* the argument of generateRequestId in the /usage handler
RequestIdParams(data, serviceCode) ==
    [customerId |-> data.customerId, service |-> data.service,
     serviceCode |-> serviceCode, unitsConsumed |-> data.unitsConsumed,
     pricePerUnit |-> data.pricePerUnit]

\* the argument of Database.createUsageRecord in the /usage handler
CreateUsageRecordRequest(data, serviceCode, requestId) ==
    [customerId |-> data.customerId, service |-> data.service,
     unitsConsumed |-> data.unitsConsumed, pricePerUnit |-> data.pricePerUnit,
     requestId |-> requestId, serviceCode |-> serviceCode]

\* mutant of CustomerMissing: the handler does not test the lookup's result
CustomerMissing_Unchecked(customer) == FALSE

\* if (!customer) throw new NotFoundError(...)
CustomerMissing(customer) == customer = Null

\* catch (error) { next(error) }: the request ends with the error response
Fail(r, err) ==
    [r EXCEPT !.pc = "done", !.thrown = err, !.resp = ErrorMiddleware(err)]

\* a request arrives; slots are taken in order of arrival
Arrive(i, route, body) ==
    /\ reqs[i].pc = "idle"
    /\ i > 1 => reqs[i - 1].pc # "idle"
    /\ route \in {"/usage", "/customers"}
    /\ body \in (IF route = "/usage" THEN UsageBodies \cup AliasBodies
                 ELSE {CustomerBody(n) : n \in NameInputs})

\* app.use(express.json()): a request whose body is not JSON never reaches a
\* route; the parser's error goes to the error-handling middleware
PostMalformed(i) ==
    /\ reqs[i].pc = "idle"
    /\ i > 1 => reqs[i - 1].pc # "idle"
    /\ reqs' = [reqs EXCEPT ![i] = Fail([@ EXCEPT !.after = Answered], JsonSyntaxError)]
    /\ UNCHANGED <<customers, usage_records, probe, client>>

\* app.post('/usage'): createUsageRecordType.parse(req.body), then the call of
\* Database.getCustomer
PostUsage(i, body) ==
    /\ Arrive(i, "/usage", body)
    /\ LET r == [reqs[i] EXCEPT !.route = "/usage", !.body = body, !.after = Answered]
           issues == createUsageRecordTypeIssues(body)
       IN  reqs' = [reqs EXCEPT ![i] =
               IF issues # {} THEN Fail(r, ZodError(issues))
               ELSE [r EXCEPT !.pc = "getCustomer"]]
    /\ UNCHANGED <<customers, usage_records, probe, client>>

\* app.post('/usage'): Database.getCustomer settles; on a customer the handler
\* derives serviceCode and requestId and calls Database.createUsageRecord
UsageGetCustomer(i, fault) ==
    /\ reqs[i].pc = "getCustomer"
    /\ fault \in {"none", "connection"}
    /\ LET data == ValidatedData(reqs[i].body)
           got == getCustomer(data.customerId, fault)
           r == [reqs[i] EXCEPT !.queries = Append(@, "getCustomer"),
                                !.pg = got.pg,
                                !.lookup = IF ~got.ok THEN "failed"
                                           ELSE IF got.value = Null THEN "absent"
                                           ELSE "found",
                                !.faulted = @ \/ fault # "none"]
           serviceCode == toServiceCode(data.service)
           requestId == generateRequestId(RequestIdParams(data, serviceCode))
       IN  reqs' = [reqs EXCEPT ![i] =
               IF ~got.ok THEN Fail(r, got.error)
               ELSE IF CustomerMissing(got.value)
               THEN Fail(r, NotFoundError(
                        Msg("Customer with ID %s does not exist", data.customerId)))
               ELSE [r EXCEPT !.pc = "createUsageRecord",
                              !.customer = got.value,
                              !.serviceCode = serviceCode,
                              !.requestId = requestId]]
    /\ UNCHANGED <<customers, usage_records, probe, client>>

\* mutant of UsageCreateRecord: a failed insert is attempted again
UsageCreateRecord_Retrying(i, fault) ==
    /\ reqs[i].pc = "createUsageRecord"
    /\ fault \in StorageFaults
    /\ fault = "id_collision" => usage_records # {}
    /\ LET data == ValidatedData(reqs[i].body)
           made == createUsageRecord(
                       CreateUsageRecordRequest(data, reqs[i].serviceCode,
                                                reqs[i].requestId), fault)
           r == [reqs[i] EXCEPT !.queries = Append(@, "createUsageRecord"),
                                !.pg = made.pg,
                                !.inserted = made.rows,
                                !.created = made.value,
                                !.faulted = @ \/ fault # "none"]
       IN  /\ usage_records' = usage_records \cup made.rows
           /\ reqs' = [reqs EXCEPT ![i] =
                  IF ~made.ok THEN r
                  ELSE [r EXCEPT !.pc = "done",
                                 !.resp = ApiResponseCreated(made.value)]]
    /\ UNCHANGED <<customers, probe, client>>

\* mutant of UsageCreateRecord: the insert replaces the rows of the table
UsageCreateRecord_Replacing(i, fault) ==
    /\ reqs[i].pc = "createUsageRecord"
    /\ fault \in StorageFaults
    /\ fault = "id_collision" => usage_records # {}
    /\ LET data == ValidatedData(reqs[i].body)
           made == createUsageRecord(
                       CreateUsageRecordRequest(data, reqs[i].serviceCode,
                                                reqs[i].requestId), fault)
           r == [reqs[i] EXCEPT !.queries = Append(@, "createUsageRecord"),
                                !.pg = made.pg,
                                !.inserted = made.rows,
                                !.created = made.value,
                                !.faulted = @ \/ fault # "none"]
       IN  /\ usage_records' = IF made.ok THEN made.rows ELSE usage_records
           /\ reqs' = [reqs EXCEPT ![i] =
                  IF ~made.ok THEN Fail(r, made.error)
                  ELSE [r EXCEPT !.pc = "done",
                                 !.resp = ApiResponseCreated(made.value)]]
    /\ UNCHANGED <<customers, probe, client>>

\* app.post('/usage'): Database.createUsageRecord settles; the handler parses
\* the record with usageRecordResponseType and answers
UsageCreateRecord(i, fault) ==
    /\ reqs[i].pc = "createUsageRecord"
    /\ fault \in StorageFaults
    /\ fault = "id_collision" => usage_records # {}
    /\ LET data == ValidatedData(reqs[i].body)
           made == createUsageRecord(
                       CreateUsageRecordRequest(data, reqs[i].serviceCode,
                                                reqs[i].requestId), fault)
           r == [reqs[i] EXCEPT !.queries = Append(@, "createUsageRecord"),
                                !.pg = made.pg,
                                !.inserted = made.rows,
                                !.created = made.value,
                                !.faulted = @ \/ fault # "none"]
           issues == usageRecordTypeIssues(made.value)
       IN  /\ usage_records' = usage_records \cup made.rows
           /\ reqs' = [reqs EXCEPT ![i] =
                  IF ~made.ok THEN Fail(r, made.error)
                  ELSE IF issues # {} THEN Fail(r, ZodError(issues))
                  ELSE [r EXCEPT !.pc = "done",
                                 !.resp = ApiResponseCreated(made.value)]]
    /\ UNCHANGED <<customers, probe, client>>

\* app.post('/customers'): createCustomerType.parse(req.body), then the call of
\* Database.createCustomer
PostCustomers(i, body) ==
    /\ Arrive(i, "/customers", body)
    /\ LET r == [reqs[i] EXCEPT !.route = "/customers", !.body = body,
                                !.after = Answered]
           issues == createCustomerTypeIssues(body)
       IN  reqs' = [reqs EXCEPT ![i] =
               IF issues # {} THEN Fail(r, ZodError(issues))
               ELSE [r EXCEPT !.pc = "createCustomer"]]
    /\ UNCHANGED <<customers, usage_records, probe, client>>

\* customerResponseType.parse(customer)
customerTypeIssues(c) ==
    (IF IsUuid(c.id) THEN {} ELSE {"id"})
    \cup (IF Len(c.name) >= 1 /\ Len(c.name) <= MaxStringLength THEN {} ELSE {"name"})

\* mutant of CustomersCreate: the insert replaces the rows of the table
CustomersCreate_Replacing(i, fault) ==
    /\ reqs[i].pc = "createCustomer"
    /\ fault \in {"none", "connection"}
    /\ LET made == createCustomer([name |-> reqs[i].body.name.s], fault)
           r == [reqs[i] EXCEPT !.queries = Append(@, "createCustomer"),
                                !.pg = made.pg,
                                !.faulted = @ \/ fault # "none"]
       IN  /\ customers' = IF made.ok THEN made.rows ELSE customers
           /\ reqs' = [reqs EXCEPT ![i] =
                  IF ~made.ok THEN Fail(r, made.error)
                  ELSE [r EXCEPT !.pc = "done",
                                 !.resp = ApiResponseCreated(made.value)]]
    /\ UNCHANGED <<usage_records, probe, client>>

\* app.post('/customers'): Database.createCustomer settles and the handler answers
CustomersCreate(i, fault) ==
    /\ reqs[i].pc = "createCustomer"
    /\ fault \in {"none", "connection"}
    /\ LET made == createCustomer([name |-> reqs[i].body.name.s], fault)
           r == [reqs[i] EXCEPT !.queries = Append(@, "createCustomer"),
                                !.pg = made.pg,
                                !.faulted = @ \/ fault # "none"]
           issues == customerTypeIssues(made.value)
       IN  /\ customers' = customers \cup made.rows
           /\ reqs' = [reqs EXCEPT ![i] =
                  IF ~made.ok THEN Fail(r, made.error)
                  ELSE IF issues # {} THEN Fail(r, ZodError(issues))
                  ELSE [r EXCEPT !.pc = "done",
                                 !.resp = ApiResponseCreated(made.value)]]
    /\ UNCHANGED <<usage_records, probe, client>>

(***************************************************************************)
(* BillingSystemClient: one call of createCustomer or recordUsage          *)
(***************************************************************************)
\* axiosRetry(this.client, { retries: 3, ... })
Retries == 3

\* what this.client.request settles with for one attempt: a response of some
\* status, or an error with a code and no response
NoResponseError(code) ==
    [hasResponse |-> FALSE, status |-> 0, data |-> NoResponse, code |-> code]
HttpResult(resp) ==
    [hasResponse |-> TRUE, status |-> resp.status, data |-> resp,
     code |-> IF resp.status < 300 THEN ""
              ELSE IF resp.status < 500 THEN "ERR_BAD_REQUEST"
              ELSE "ERR_BAD_RESPONSE"]

\* a response produced by something between client and server: no envelope
GatewayResponse(status) == [NoResponse EXCEPT !.status = status]

\* codes of attempts that fail without a response
NoResponseCodes == {"ECONNABORTED", "ETIMEDOUT", "ECONNREFUSED"}
\* statuses answered in place of the server
GatewayStatuses == {503, 429, 408, 403}

\* mutant of retryCondition: every error response is retried
retryCondition_AnyErrorStatus(error) ==
    error.hasResponse /\ error.status >= 400

\* retryCondition: error.response?.status is undefined without a response
retryCondition(error) ==
    /\ error.hasResponse
    /\ \/ error.status = 408
       \/ error.status = 429
       \/ (error.status # 0 /\ error.status >= 500 /\ error.status < 600)

\* mutant of shouldRetry: the number of retries is not limited
shouldRetry_Unbounded(retryCount, error) == retryCondition(error)

\* mutant of shouldRetry: one more retry than configured
shouldRetry_OneMore(retryCount, error) ==
    retryCount <= Retries /\ retryCondition(error)

\* axios-retry under the configured options: retry while fewer than `retries`
\* retries were made and retryCondition accepts the error
shouldRetry(retryCount, error) ==
    retryCount < Retries /\ retryCondition(error)

\* the { details } object handleAxiosError passes to ValidationError
WrappedDetails(details) == [kind |-> "details", details |-> details]

\* data?.error: the body is an error envelope
HasErrorBody(data) == data.bodyStatus = "error"

\* mutant of handleAxiosError: the body is inspected before the status
handleAxiosError_BodyFirst(error) ==
    IF ~error.hasResponse THEN NetworkError(Msg("Network error", <<>>))
    ELSE IF HasErrorBody(error.data)
    THEN PlainError(error.data.message, error.data.code)
    ELSE InvalidResponseError(Msg("Server error (%s)", NatToString(error.status)))

\* mutant of handleAxiosError: the ValidationError is raised without the
\* details of the body
handleAxiosError_DetailsDropped(error) ==
    IF ~error.hasResponse
    THEN IF error.code \in {"ECONNABORTED", "ETIMEDOUT"}
         THEN RequestTimeoutError(Msg("Request timed out", <<>>))
         ELSE NetworkError(Msg("Network error", <<>>))
    ELSE IF error.status >= 500
    THEN InvalidResponseError(Msg("Server error (%s)", NatToString(error.status)))
    ELSE IF HasErrorBody(error.data)
    THEN IF error.status = 400
         THEN ValidationError(error.data.message, WrappedDetails(NoDetails))
         ELSE PlainError(error.data.message, error.data.code)
    ELSE PlainError(Msg("Request failed with status %s", NatToString(error.status)), "")

\* mutant of handleAxiosError: the Error raised for a 4xx gets no code and
\* names no status
handleAxiosError_CodeDropped(error) ==
    IF ~error.hasResponse
    THEN IF error.code \in {"ECONNABORTED", "ETIMEDOUT"}
         THEN RequestTimeoutError(Msg("Request timed out", <<>>))
         ELSE NetworkError(Msg("Network error", <<>>))
    ELSE IF error.status >= 500
    THEN InvalidResponseError(Msg("Server error (%s)", NatToString(error.status)))
    ELSE IF HasErrorBody(error.data)
    THEN IF error.status = 400
         THEN ValidationError(error.data.message, WrappedDetails(error.data.details))
         ELSE PlainError(error.data.message, "")
    ELSE PlainError(Msg("Request failed", <<>>), "")

\* handleAxiosError: the error callApi raises for a failed request
handleAxiosError(error) ==
    IF ~error.hasResponse
    THEN IF error.code \in {"ECONNABORTED", "ETIMEDOUT"}
         THEN RequestTimeoutError(Msg("Request timed out", <<>>))
         ELSE NetworkError(Msg("Network error", <<>>))
    ELSE IF error.status >= 500
    THEN InvalidResponseError(Msg("Server error (%s)", NatToString(error.status)))
    ELSE IF HasErrorBody(error.data)
    THEN IF error.status = 400
         THEN ValidationError(error.data.message, WrappedDetails(error.data.details))
         ELSE PlainError(error.data.message, error.data.code)
    ELSE PlainError(Msg("Request failed with status %s", NatToString(error.status)), "")

\* mutant of callApiReturn: the whole envelope is returned
callApiReturn_Envelope(response) == response.data

\* return response.data.data
callApiReturn(response) == response.data.data

NoClient ==
    [pc |-> "idle", method |-> "", input |-> EmptyBody, attempts |-> 0,
     retryCount |-> 0, used |-> 0, outcomes |-> <<>>, result |-> "",
     value |-> Null, error |-> Null]

\* createCustomer(input) / recordUsage(input): callApi issues the first attempt
NewCall(method, input) ==
    [NoClient EXCEPT !.pc = "inflight", !.method = method, !.input = input,
                     !.attempts = 1]

\* the inputs of the modelled calls
ClientCalls ==
    {NewCall("recordUsage", b) : b \in UsageBodies}
    \cup {NewCall("createCustomer", CustomerBody(n)) : n \in NameInputs}

\* server slots taken so far
UsedSlots == Cardinality({i \in DOMAIN reqs : reqs[i].pc # "idle"})

\* the slot in which the server handles the attempt in flight
AttemptSlot == client.used + 1

\* the attempt in flight has not reached the server
NotArrived == AttemptSlot \notin DOMAIN reqs \/ reqs[AttemptSlot].pc = "idle"

\* mutant of Settle: the catch block of callApi returns instead of raising
Settle_ErrorSwallowed(outcome) ==
    LET c == [client EXCEPT !.outcomes = Append(@, outcome)]
    IN  client' =
            IF outcome.hasResponse /\ outcome.status < 300
            THEN [c EXCEPT !.pc = "done", !.result = "returned",
                           !.value = callApiReturn(outcome)]
            ELSE IF shouldRetry(client.retryCount, outcome)
            THEN [c EXCEPT !.retryCount = @ + 1, !.attempts = @ + 1,
                           !.used = UsedSlots]
            ELSE [c EXCEPT !.pc = "done", !.result = "returned"]

\* an attempt settles with `outcome`: the call returns, or axios-retry issues
\* the next attempt, or callApi raises handleAxiosError's error
Settle(outcome) ==
    LET c == [client EXCEPT !.outcomes = Append(@, outcome)]
    IN  client' =
            IF outcome.hasResponse /\ outcome.status < 300
            THEN [c EXCEPT !.pc = "done", !.result = "returned",
                           !.value = callApiReturn(outcome)]
            ELSE IF shouldRetry(client.retryCount, outcome)
            THEN [c EXCEPT !.retryCount = @ + 1, !.attempts = @ + 1,
                           !.used = UsedSlots]
            ELSE [c EXCEPT !.pc = "done", !.result = "raised",
                           !.error = handleAxiosError(outcome)]

\* the attempt fails without a response before it reaches the server
AttemptFails(code) ==
    /\ client.pc = "inflight"
    /\ NotArrived
    /\ code \in NoResponseCodes
    /\ Settle(NoResponseError(code))
    /\ UNCHANGED <<customers, usage_records, reqs, probe>>

\* the attempt is answered in place of the server
AttemptRejected(status) ==
    /\ client.pc = "inflight"
    /\ NotArrived
    /\ status \in GatewayStatuses
    /\ Settle(HttpResult(GatewayResponse(status)))
    /\ UNCHANGED <<customers, usage_records, reqs, probe>>

\* the attempt reaches the server
AttemptArrives ==
    /\ client.pc = "inflight"
    /\ AttemptSlot \in DOMAIN reqs
    /\ IF client.method = "recordUsage"
       THEN PostUsage(AttemptSlot, client.input)
       ELSE PostCustomers(AttemptSlot, client.input)

\* the server works on the attempt
ServerStep(fault) ==
    /\ client.pc = "inflight"
    /\ AttemptSlot \in DOMAIN reqs
    /\ \/ UsageGetCustomer(AttemptSlot, fault)
       \/ UsageCreateRecord(AttemptSlot, fault)
       \/ CustomersCreate(AttemptSlot, fault)

\* the server's response reaches the client
ResponseArrives ==
    /\ client.pc = "inflight"
    /\ AttemptSlot \in DOMAIN reqs
    /\ reqs[AttemptSlot].pc = "done"
    /\ Settle(HttpResult(reqs[AttemptSlot].resp))
    /\ UNCHANGED <<customers, usage_records, reqs, probe>>

\* the server answered but the client gets no response, or another one
ResponseLost(outcome) ==
    /\ client.pc = "inflight"
    /\ AttemptSlot \in DOMAIN reqs
    /\ reqs[AttemptSlot].pc = "done"
    /\ outcome \in {NoResponseError("ECONNABORTED"), HttpResult(GatewayResponse(503))}
    /\ Settle(outcome)
    /\ UNCHANGED <<customers, usage_records, reqs, probe>>

(***************************************************************************)
(* Direct calls of generateRequestId on two parameter tuples               *)
(***************************************************************************)
ProbeCustomerIds == { <<"a">>, <<"a", ":", "b">> }
ProbeServices == { <<"b">>, <<"b", ":", "c">>, <<"c">> }
ProbeServiceCodes == { <<"C">>, <<"B", ":", "C">> }
ProbeUnits == { Unit, 11 * Unit }
ProbePrices == { Half, Unit + Half }

ProbeParams ==
    [customerId : ProbeCustomerIds, service : ProbeServices,
     serviceCode : ProbeServiceCodes, unitsConsumed : ProbeUnits,
     pricePerUnit : ProbePrices]

NoProbe == [a |-> Null, b |-> Null, dataA |-> <<>>, dataB |-> <<>>,
            keyA |-> <<>>, keyB |-> <<>>, done |-> FALSE]

\* generateRequestId(a) and generateRequestId(b)
CallGenerateRequestId ==
    /\ ~probe.done
    /\ probe' = [probe EXCEPT !.dataA = RequestIdData(probe.a),
                              !.dataB = RequestIdData(probe.b),
                              !.keyA = generateRequestId(probe.a),
                              !.keyB = generateRequestId(probe.b),
                              !.done = TRUE]
    /\ UNCHANGED <<customers, usage_records, reqs, client>>

InitKey ==
    /\ customers = SampleCustomers
    /\ usage_records = {}
    /\ reqs = [i \in Requests |-> IdleRequest]
    /\ probe \in {[NoProbe EXCEPT !.a = a, !.b = b] : a \in ProbeParams, b \in ProbeParams}
    /\ client = NoClient

NextKey == CallGenerateRequestId

SpecKey == InitKey /\ [][NextKey]_vars


Init ==
    /\ customers = SampleCustomers
    /\ usage_records = {}
    /\ reqs = [i \in Requests |-> IdleRequest]
    /\ probe = NoProbe
    /\ client = NoClient

Next ==
    \E i \in Requests :
        \/ PostMalformed(i)
        \/ \E body \in UsageBodies : PostUsage(i, body)
        \/ \E fault \in StorageFaults : UsageGetCustomer(i, fault)
        \/ \E fault \in StorageFaults : UsageCreateRecord(i, fault)
        \/ \E n \in NameInputs : PostCustomers(i, CustomerBody(n))
        \/ \E fault \in StorageFaults : CustomersCreate(i, fault)

Spec == Init /\ [][Next]_vars

(***************************************************************************)
(* Direct calls of generateRequestId on two validated submissions          *)
(***************************************************************************)
ColonLabels == { <<"a">>, <<"a", ":">>, <<"a", ":", "b">>, <<":">>, <<>> }

\* validatedData of the bodies that pass createUsageRecordType
ValidatedSubmissions ==
    { x \in [customerId : {UuidGenerate("a", 1), ToUpperCase(UuidGenerate("a", 1)),
                            UuidGenerate("c", 1), <<"a", ":", "1">>},
              service : ColonLabels,
              unitsConsumed : ProbeUnits \cup {0},
              pricePerUnit : ProbePrices \cup {Unit}] :
        createUsageRecordTypeIssues(
            UsageBody(Str(x.customerId), Str(x.service),
                      Num(x.unitsConsumed), Num(x.pricePerUnit))) = {} }

\* the argument of generateRequestId the handler builds from validatedData
HandlerParams(data) == RequestIdParams(data, toServiceCode(data.service))

InitValidKey ==
    /\ customers = SampleCustomers
    /\ usage_records = {}
    /\ reqs = [i \in Requests |-> IdleRequest]
    /\ probe \in {[NoProbe EXCEPT !.a = HandlerParams(x), !.b = HandlerParams(y)] :
                      x \in ValidatedSubmissions, y \in ValidatedSubmissions}
    /\ client = NoClient

SpecValidKey == InitValidKey /\ [][NextKey]_vars

\* POST /usage requests for one customer whose id is written in two ways
NextAlias ==
    \E i \in Requests :
        \/ \E body \in AliasBodies : PostUsage(i, body)
        \/ \E fault \in StorageFaults : UsageGetCustomer(i, fault)
        \/ \E fault \in StorageFaults : UsageCreateRecord(i, fault)

SpecAlias == Init /\ [][NextAlias]_vars

(***************************************************************************)
(* Direct calls of toServiceCode                                           *)
(***************************************************************************)
LabelChars == {"a", "B", "1", " ", "_", "!"}

\* every service label of at most MaxLabelLen characters
Labels == UNION {[1..n -> LabelChars] : n \in 0..MaxLabelLen}

\* toServiceCode(label) and toServiceCode(toServiceCode(label))
CallToServiceCode ==
    /\ ~probe.done
    /\ probe' = [probe EXCEPT !.once = toServiceCode(probe.label),
                              !.twice = toServiceCode(toServiceCode(probe.label)),
                              !.done = TRUE]
    /\ UNCHANGED <<customers, usage_records, reqs, client>>

InitServiceCode ==
    /\ customers = SampleCustomers
    /\ usage_records = {}
    /\ reqs = [i \in Requests |-> IdleRequest]
    /\ probe \in {[label |-> x, once |-> <<>>, twice |-> <<>>, done |-> FALSE] :
                      x \in Labels}
    /\ client = NoClient

NextServiceCode == CallToServiceCode

SpecServiceCode == InitServiceCode /\ [][NextServiceCode]_vars

\* one client call against a server that serves nothing else
InitClient ==
    /\ customers = SampleCustomers
    /\ usage_records = {}
    /\ reqs = [i \in 1..(Retries + 1) |-> IdleRequest]
    /\ probe = NoProbe
    /\ client \in ClientCalls

NextClient ==
    \/ \E code \in NoResponseCodes : AttemptFails(code)
    \/ \E status \in GatewayStatuses : AttemptRejected(status)
    \/ AttemptArrives
    \/ \E fault \in StorageFaults : ServerStep(fault)
    \/ ResponseArrives
    \/ \E outcome \in {NoResponseError("ECONNABORTED"),
                       HttpResult(GatewayResponse(503))} : ResponseLost(outcome)

SpecClient == InitClient /\ [][NextClient]_vars

\* the storage call the server waits on settles, with an error or a result
StorageCallSettles ==
    ServerStep("connection") \/ ServerStep("none") \/ ServerStep("id_collision")

\* the attempt in flight moves on between client and server
AttemptMoves ==
    \/ \E code \in NoResponseCodes : AttemptFails(code)
    \/ AttemptArrives
    \/ ResponseArrives

\* every attempt in flight is eventually answered or fails: the transport
\* does not hold a request or a response forever, and no storage call of the
\* server stays pending forever
SpecClientFair ==
    SpecClient /\ WF_vars(AttemptMoves) /\ WF_vars(StorageCallSettles)

(***************************************************************************)
(* Properties                                                              *)
(***************************************************************************)
\* request i is a POST /usage whose body passed createUsageRecordType
ValidUsage(i) ==
    /\ reqs[i].route = "/usage"
    /\ createUsageRecordTypeIssues(reqs[i].body) = {}

\* request i derived its idempotency key (it got past the customer lookup)
Derived(i) == reqs[i].route = "/usage" /\ reqs[i].lookup = "found"

\* request i has been answered after attempting the insert
Inserting(i) ==
    /\ reqs[i].pc = "done"
    /\ reqs[i].queries = <<"getCustomer", "createUsageRecord">>

\* the parameters from which request i derived its key
ParamsOf(i) ==
    RequestIdParams(ValidatedData(reqs[i].body), reqs[i].serviceCode)

RecordsWithKey(key) == {u \in usage_records : u.request_id = key}

\* C1: in every reachable state the persisted usage records hold at most one
\* record per idempotency key (request_id)
C1_UniqueRequestId ==
    \A u \in usage_records : \A v \in usage_records :
        u.request_id = v.request_id => u = v

\* C1 witness: a record is persisted and a later insert with the same key was
\* rejected by the request_id constraint
C1_Witness ==
    \E i \in Requests :
        /\ reqs[i].pg.constraint = "usage_records_request_id_key"
        /\ RecordsWithKey(reqs[i].requestId) # {}

\* C2 (as claimed): the same valid payload for an existing customer submitted
\* twice in sequence, with healthy storage and no other submission of that
\* payload: the first answers 201 with the created record, the second answers
\* 409 DUPLICATE_RECORD naming the first record's requestId, and exactly one
\* record with that key is persisted
C2_SequentialDuplicate ==
    \A i \in Requests : \A j \in Requests :
        ( /\ ValidUsage(i) /\ ValidUsage(j)
          /\ reqs[i].body = reqs[j].body
          /\ reqs[i].pc = "done" /\ reqs[j].pc = "done"
          /\ i \in reqs[j].after
          /\ reqs[i].lookup = "found"
          /\ ~reqs[i].faulted /\ ~reqs[j].faulted
          /\ \A k \in Requests \ {i, j} : reqs[k].body # reqs[i].body )
        => /\ reqs[i].resp.status = 201
           /\ reqs[i].resp.data \in {UsageRecordOf(u) : u \in usage_records}
           /\ reqs[j].resp.status = 409
           /\ reqs[j].resp.code = "DUPLICATE_RECORD"
           /\ reqs[j].resp.details.requestId = reqs[i].requestId
           /\ Cardinality(RecordsWithKey(reqs[i].requestId)) = 1

\* the answered requests that attempted an insert with the given key
Contenders(key) == {i \in Requests : Inserting(i) /\ reqs[i].requestId = key}

\* C3 (as claimed): when two or more requests carrying the same derived key
\* have attempted their insert, all with healthy storage, exactly one of them
\* answered 201 and every other one got DuplicateRecordError and answered 409
C3_ExactlyOneWinner ==
    \A i \in Requests :
        LET S == Contenders(reqs[i].requestId)
        IN  ( /\ Inserting(i)
              /\ Cardinality(S) >= 2
              /\ \A j \in S : ~reqs[j].faulted )
            => /\ Cardinality({j \in S : reqs[j].resp.status = 201}) = 1
               /\ \A j \in S :
                      reqs[j].resp.status # 201 =>
                          /\ reqs[j].thrown.class = "DuplicateRecordError"
                          /\ reqs[j].resp.status = 409

\* C4: generateRequestId is a function of its five fields alone: requests
\* that derived their keys from equal fields hold equal keys, whenever and
\* after whatever other requests and records each was derived, and a key
\* derived earlier equals the key derived from the same fields now
C4_KeyDeterministic ==
    /\ \A i \in Requests : \A j \in Requests :
           (Derived(i) /\ Derived(j) /\ ParamsOf(i) = ParamsOf(j))
           => reqs[i].requestId = reqs[j].requestId
    /\ \A i \in Requests :
           Derived(i) => reqs[i].requestId = generateRequestId(ParamsOf(i))

\* C4 witness: two requests with equal fields derived their keys at different
\* times, the second after the first was answered and its record persisted
C4_Witness ==
    \E i \in Requests : \E j \in Requests :
        /\ Derived(i) /\ Derived(j)
        /\ ParamsOf(i) = ParamsOf(j)
        /\ i \in reqs[j].after
        /\ reqs[i].inserted # {}

\* C5 (as claimed): two submissions for the same customer, units and price
\* whose service labels give the same service code derive the same key, and
\* the later one, submitted after the first was created, is rejected with 409
C5_FormattingCollapses ==
    \A i \in Requests : \A j \in Requests :
        ( /\ Derived(i) /\ Derived(j)
          /\ reqs[i].body.customerId = reqs[j].body.customerId
          /\ reqs[i].body.unitsConsumed = reqs[j].body.unitsConsumed
          /\ reqs[i].body.pricePerUnit = reqs[j].body.pricePerUnit
          /\ toServiceCode(reqs[i].body.service.s) = toServiceCode(reqs[j].body.service.s) )
        => /\ reqs[i].requestId = reqs[j].requestId
           /\ ( /\ i \in reqs[j].after /\ reqs[i].resp.status = 201
                /\ reqs[j].pc = "done" /\ ~reqs[j].faulted )
              => reqs[j].resp.status = 409

HasColon(s) == \E k \in 1..Len(s) : s[k] = ":"

C7_Offending(body) ==
    (IF body.unitsConsumed.k # "num" \/ body.unitsConsumed.n <= 0
        \/ ~IsInteger(body.unitsConsumed.n)
     THEN {"unitsConsumed"} ELSE {})
    \cup (IF body.pricePerUnit.k # "num" \/ body.pricePerUnit.n <= 0
          THEN {"pricePerUnit"} ELSE {})
    \cup (IF body.customerId.k # "str" \/ ~IsUuid(body.customerId.s)
          THEN {"customerId"} ELSE {})

\* C7: a POST /usage request whose unitsConsumed is not a positive integer,
\* whose pricePerUnit is not a positive number or whose customerId is not a
\* UUID is answered 400 BAD_REQUEST with a field-level details list naming
\* those fields, and makes no storage access
C7_ValidationBeforeStorage ==
    \A i \in Requests :
        (reqs[i].route = "/usage" /\ C7_Offending(reqs[i].body) # {})
        => /\ reqs[i].pc = "done"
           /\ reqs[i].resp.status = 400
           /\ reqs[i].resp.statusCode = 400
           /\ reqs[i].resp.bodyStatus = "error"
           /\ reqs[i].resp.code = "BAD_REQUEST"
           /\ reqs[i].resp.details.kind = "fields"
           /\ C7_Offending(reqs[i].body) \subseteq reqs[i].resp.details.fields
           /\ reqs[i].queries = <<>>

\* C7 witness: a request whose only offending field is a non-positive
\* unitsConsumed has been answered
C7_Witness ==
    \E i \in Requests :
        /\ reqs[i].route = "/usage"
        /\ reqs[i].pc = "done"
        /\ C7_Offending(reqs[i].body) = {"unitsConsumed"}
        /\ reqs[i].body.unitsConsumed.k = "num"
        /\ reqs[i].body.unitsConsumed.n <= 0

\* C8: a valid POST /usage request whose customer lookup finds no stored
\* customer answers 404 NOT_FOUND without attempting the insert, and no
\* request ever meets a foreign-key violation on customer_id
C8_AbsentCustomerIs404 ==
    /\ \A i \in Requests :
           reqs[i].lookup = "absent"
           => /\ reqs[i].pc = "done"
              /\ reqs[i].resp.status = 404
              /\ reqs[i].resp.code = "NOT_FOUND"
              /\ reqs[i].queries = <<"getCustomer">>
              /\ reqs[i].inserted = {}
    /\ \A i \in Requests : reqs[i].pg.code # "23503"

\* C8 witness: a valid request naming a well-formed customer id that no
\* stored customer has was answered
C8_Witness ==
    \E i \in Requests :
        /\ ValidUsage(i)
        /\ reqs[i].lookup = "absent"
        /\ reqs[i].pc = "done"
        /\ \A c \in customers : c.id # PgUuid(reqs[i].body.customerId.s)

\* C9 (as claimed): Database.createUsageRecord signals DuplicateRecordError
\* only when the insert was rejected by the uniqueness constraint on
\* request_id; every other failure of the insert signals DatabaseError
C9_DuplicateOnlyForRequestId ==
    \A i \in Requests :
        (Inserting(i) /\ reqs[i].pg.code # "ok")
        => IF reqs[i].pg.constraint = "usage_records_request_id_key"
           THEN reqs[i].thrown.class = "DuplicateRecordError"
           ELSE reqs[i].thrown.class = "DatabaseError"

\* C10 (as claimed): a POST /usage request answers 201 with the created record
\* exactly when its insert succeeded, and a request answered 400, 404, 409 or
\* 500 has added nothing to the persisted usage records
C10_CreatedIffInserted ==
    \A i \in Requests :
        (reqs[i].route = "/usage" /\ reqs[i].pc = "done")
        => /\ reqs[i].resp.status = 201 <=> reqs[i].inserted # {}
           /\ reqs[i].resp.status = 201 =>
                  reqs[i].inserted = {u \in usage_records :
                                         UsageRecordOf(u) = reqs[i].resp.data}
           /\ reqs[i].resp.status \in {400, 404, 409, 500} => reqs[i].inserted = {}

(***************************************************************************)
(* Properties of the client                                                *)
(***************************************************************************)
\* the call has ended
ClientDone == client.pc = "done"

\* the outcome of the last attempt made so far
LastOutcome == client.outcomes[Len(client.outcomes)]

\* C11: a call of createCustomer or recordUsage makes at most four HTTP
\* attempts, the first one and at most three retries
C11_AtMostFourAttempts ==
    /\ client.attempts <= Retries + 1
    /\ client.retryCount <= Retries
    /\ Len(client.outcomes) <= Retries + 1

\* a call that ended after its fourth attempt
C11_Witness ==
    /\ ClientDone
    /\ client.attempts = Retries + 1
    /\ Len(client.outcomes) = Retries + 1

\* the k-th attempt was answered with a status the server uses for a
\* non-transient failure
NonTransient(k) ==
    client.outcomes[k].hasResponse /\ client.outcomes[k].status \in {400, 404, 409}

\* C12: an attempt answered with a non-transient status (400, 404, 409) is
\* never retried: it is the last attempt, and the call raises the error
\* handleAxiosError classifies that response as, carrying the body's message
C12_NonTransientNotRetried ==
    \A k \in 1..Len(client.outcomes) :
        NonTransient(k) =>
            /\ k = Len(client.outcomes)
            /\ client.attempts = k
            /\ ClientDone
            /\ client.result = "raised"
            /\ client.error.message = client.outcomes[k].data.message
            /\ client.outcomes[k].status = 400 => client.error.class = "ValidationError"
            /\ client.outcomes[k].status # 400 =>
                   client.error.code = client.outcomes[k].data.code

\* a retried call that ended on a 409, and calls that ended on 400 and 404
C12_Witness ==
    /\ ClientDone
    /\ NonTransient(Len(client.outcomes))
    /\ client.result = "raised"
    /\ \/ LastOutcome.status = 409 /\ Len(client.outcomes) >= 2
       \/ LastOutcome.status = 404 /\ Len(client.outcomes) >= 2

\* the k-th attempt failed without a response
NoResponseAt(k) == ~client.outcomes[k].hasResponse

\* C13: an attempt that fails without a response (timeout or connectivity
\* failure) is retried as long as fewer than three retries have been made
C13_NoResponseRetried ==
    \A k \in 1..Len(client.outcomes) :
        (NoResponseAt(k) /\ k <= Retries) => client.attempts > k

\* the idempotency key of the payload of a recordUsage call
PayloadKey ==
    LET data == ValidatedData(client.input)
    IN  generateRequestId(RequestIdParams(data, toServiceCode(data.service)))

\* the call ended with a success on its third attempt after two 503 responses
TwoUnavailableThenSuccess ==
    /\ ClientDone
    /\ Len(client.outcomes) = 3
    /\ \A k \in 1..2 : client.outcomes[k].hasResponse /\ client.outcomes[k].status = 503
    /\ client.outcomes[3].hasResponse
    /\ client.outcomes[3].status = 201

\* C14: when the first two attempts of a call are answered 503 and the third
\* succeeds, the call returns the record of the third attempt's response, and
\* for recordUsage exactly one usage record with the payload's key is stored
C14_SuccessAfterTwo503 ==
    TwoUnavailableThenSuccess =>
        /\ client.result = "returned"
        /\ client.value = reqs[AttemptSlot].resp.data
        /\ client.value # NoData
        /\ client.method = "recordUsage" =>
               /\ Cardinality(RecordsWithKey(PayloadKey)) = 1
               /\ \E u \in RecordsWithKey(PayloadKey) : client.value = UsageRecordOf(u)
        /\ client.method = "createCustomer" => client.value \in customers

C14_Witness ==
    /\ TwoUnavailableThenSuccess
    /\ client.method = "recordUsage"
    /\ client.result = "returned"

\* four attempts were made and the last one failed
Exhausted ==
    /\ Len(client.outcomes) = Retries + 1
    /\ ~(LastOutcome.hasResponse /\ LastOutcome.status < 300)

\* the error class handleAxiosError gives the failure of the last attempt
RaisedForLast ==
    /\ client.result = "raised"
    /\ ~LastOutcome.hasResponse =>
           client.error.class \in {"RequestTimeoutError", "NetworkError"}
    /\ (LastOutcome.hasResponse /\ LastOutcome.status >= 500) =>
           /\ client.error.class = "InvalidResponseError"
           /\ client.error.message =
                  Msg("Server error (%s)", NatToString(LastOutcome.status))
    /\ (LastOutcome.hasResponse /\ LastOutcome.status < 500) =>
           client.error.class \in {"ValidationError", "Error"}

C16_ClassificationOrder ==
    (ClientDone /\ client.result = "raised") =>
        /\ (~LastOutcome.hasResponse /\ LastOutcome.code \in {"ECONNABORTED", "ETIMEDOUT"}) =>
               client.error.class = "RequestTimeoutError"
        /\ (~LastOutcome.hasResponse /\ LastOutcome.code \notin {"ECONNABORTED", "ETIMEDOUT"}) =>
               client.error.class = "NetworkError"
        /\ (LastOutcome.hasResponse /\ LastOutcome.status >= 500) =>
               client.error.class = "InvalidResponseError"
        /\ client.error.class \in {"ValidationError", "Error"} =>
               (LastOutcome.hasResponse /\ LastOutcome.status < 500)

\* a call that ended on a 500 of the server whose body is an error envelope
C16_Witness ==
    /\ ClientDone
    /\ client.result = "raised"
    /\ LastOutcome.hasResponse
    /\ LastOutcome.status = 500
    /\ HasErrorBody(LastOutcome.data)
    /\ client.error.class = "InvalidResponseError"

\* C17: a 4xx response with an error envelope is raised as the typed error of
\* the envelope's code: BAD_REQUEST as ValidationError, NOT_FOUND as
\* NotFoundError, DUPLICATE_RECORD as DuplicateRecordError
C17_TypedErrorPerCode ==
    (/\ ClientDone
     /\ client.result = "raised"
     /\ LastOutcome.hasResponse
     /\ LastOutcome.status >= 400
     /\ LastOutcome.status < 500
     /\ HasErrorBody(LastOutcome.data)) =>
        /\ LastOutcome.data.code = "BAD_REQUEST" => client.error.class = "ValidationError"
        /\ LastOutcome.data.code = "NOT_FOUND" => client.error.class = "NotFoundError"
        /\ LastOutcome.data.code = "DUPLICATE_RECORD" =>
               client.error.class = "DuplicateRecordError"

(***************************************************************************)
(* Properties of the server's error responses and of toServiceCode         *)
(***************************************************************************)
\* request i was answered with an error
Failed(i) == reqs[i].pc = "done" /\ reqs[i].thrown # Null

\* the request body of request i failed its schema
RequestInvalid(i) ==
    /\ reqs[i].route # ""
    /\ reqs[i].queries = <<>>
    /\ reqs[i].thrown.class = "ZodError"

\* C18: the server answers each kind of failure with a fixed status and code:
\* a request that fails validation 400 BAD_REQUEST, an absent customer 404
\* NOT_FOUND, a duplicate key 409 DUPLICATE_RECORD, a storage failure 500, an
\* error that is neither a validation error nor an AppError 500
\* INTERNAL_SERVER_ERROR; every error body has status "error" and a
\* statusCode equal to the HTTP status
C18_FailureKindMapping ==
    \A i \in Requests :
        Failed(i) =>
            LET r == reqs[i]
            IN  /\ r.resp.bodyStatus = "error"
                /\ r.resp.statusCode = r.resp.status
                /\ r.resp.status >= 400
                /\ RequestInvalid(i) =>
                       (r.resp.status = 400 /\ r.resp.code = "BAD_REQUEST")
                /\ r.lookup = "absent" =>
                       (r.resp.status = 404 /\ r.resp.code = "NOT_FOUND")
                /\ (r.pg.code = "23505" /\ r.pg.constraint = "usage_records_request_id_key") =>
                       (r.resp.status = 409 /\ r.resp.code = "DUPLICATE_RECORD")
                /\ r.thrown.class = "DatabaseError" => r.resp.status = 500
                /\ (~r.thrown.isAppError /\ r.thrown.class # "ZodError") =>
                       (r.resp.status = 500 /\ r.resp.code = "INTERNAL_SERVER_ERROR")

\* a request that failed validation and one whose body was not JSON
C18_Witness ==
    \E i \in Requests : \E j \in Requests :
        /\ Failed(i) /\ RequestInvalid(i) /\ reqs[i].resp.status = 400
        /\ Failed(j) /\ reqs[j].thrown.class = "SyntaxError" /\ reqs[j].resp.status = 500

\* C19: a 500 answered for a storage failure carries no details holding the
\* underlying storage error
C19_NoStorageCauseInBody ==
    \A i \in Requests :
        (Failed(i) /\ reqs[i].thrown.class = "DatabaseError" /\ reqs[i].resp.status = 500)
            => reqs[i].resp.details.kind # "cause"

\* C20: toServiceCode applied to its own result returns that result, for
\* every label; the empty label gives the empty code
C20_Idempotent ==
    probe.done =>
        /\ probe.twice = probe.once
        /\ probe.label = <<>> => probe.once = <<>>

\* a label whose code differs from it and is not empty
C20_Witness ==
    /\ probe.done
    /\ probe.label = <<" ", "a", "!">>
    /\ probe.once = <<"A">>
    /\ probe.twice = <<"A">>

(***************************************************************************)
(* Properties of toServiceCode's result                                    *)
(***************************************************************************)
RECURSIVE AlnumRuns(_, _)
\* the maximal runs of letters and digits of s, in order; `run` is the run
\* being read
AlnumRuns(s, run) ==
    IF s = <<>> THEN (IF run = <<>> THEN <<>> ELSE <<run>>)
    ELSE IF s[1] \in Alnum THEN AlnumRuns(Tail(s), Append(run, s[1]))
    ELSE (IF run = <<>> THEN <<>> ELSE <<run>>) \o AlnumRuns(Tail(s), <<>>)

\* the runs of letters and digits of the label in upper case, one underscore
\* between neighbours
RunsJoined(label) ==
    LET runs == AlnumRuns(label, <<>>)
    IN  Join([k \in 1..Len(runs) |-> ToUpperCase(runs[k])], <<"_">>)

LookupSettles(i) == reqs[i].pc = "getCustomer" /\ reqs'[i].pc # "getCustomer"

\* the customer rows with the id request i asks for
RowsAsked(i) == {c \in customers : c.id = PgUuid(reqs[i].body.customerId.s)}

\* C22: Database.getCustomer returns null, and no error, exactly when no
\* customer row has the given id; it raises DatabaseError only when the query
\* fails; it never changes storage
C22_GetCustomerAbsence ==
    [][\A i \in Requests :
          LookupSettles(i) =>
              /\ customers' = customers
              /\ usage_records' = usage_records
              /\ (reqs'[i].lookup = "absent") <=>
                     (reqs'[i].pg.code = "ok" /\ RowsAsked(i) = {})
              /\ (reqs'[i].lookup = "failed") <=> (reqs'[i].pg.code # "ok")
              /\ reqs'[i].lookup = "failed" =>
                     reqs'[i].thrown.class = "DatabaseError"
              /\ reqs'[i].lookup = "absent" =>
                     reqs'[i].thrown.class = "NotFoundError"
              /\ reqs'[i].lookup = "found" =>
                     (reqs'[i].customer \in RowsAsked(i) /\ reqs'[i].thrown = Null)]_vars

\* one lookup found no row and another one failed
C22_Witness ==
    \E i \in Requests : \E j \in Requests :
        /\ reqs[i].lookup = "absent" /\ reqs[i].pg.code = "ok"
        /\ reqs[j].lookup = "failed" /\ reqs[j].thrown.class = "DatabaseError"

\* the body of request i holds a name of 1 to 255 characters
NameValid(i) ==
    /\ reqs[i].body.name.k = "str"
    /\ Len(reqs[i].body.name.s) >= 1
    /\ Len(reqs[i].body.name.s) <= 255

\* the answered POST /customers requests
CustomerPosts == {i \in Requests : reqs[i].route = "/customers" /\ reqs[i].pc = "done"}

\* C23: POST /customers with a valid body {name} creates exactly one customer
\* and answers 201 with status "success" and the created customer, unless the
\* storage call fails; with a missing, empty or over-long name it answers 400
\* BAD_REQUEST and creates no customer
C23_PostCustomers ==
    /\ \A i \in CustomerPosts :
           IF NameValid(i)
           THEN reqs[i].pg.code = "ok" =>
                    /\ reqs[i].resp.status = 201
                    /\ reqs[i].resp.bodyStatus = "success"
                    /\ reqs[i].resp.data \in customers \ SampleCustomers
                    /\ reqs[i].resp.data.name = reqs[i].body.name.s
                    /\ \A j \in CustomerPosts \ {i} : reqs[j].resp.data # reqs[i].resp.data
           ELSE /\ reqs[i].resp.status = 400
                /\ reqs[i].resp.code = "BAD_REQUEST"
                /\ reqs[i].queries = <<>>
    /\ Cardinality(customers \ SampleCustomers) =
           Cardinality({i \in CustomerPosts : reqs[i].resp.status = 201})

\* a customer was created and a request with an over-long name was refused
C23_Witness ==
    \E i \in CustomerPosts : \E j \in CustomerPosts :
        /\ reqs[i].resp.status = 201
        /\ reqs[j].resp.status = 400
        /\ Len(reqs[j].body.name.s) > 255

\* the storage calls a POST /usage request may have made so far
UsageQueryOrders ==
    { <<>>, <<"getCustomer">>, <<"getCustomer", "createUsageRecord">> }

\* C24: one POST /usage request makes at most one customer lookup and at most
\* one insert attempt, in that order, reads usage_records in no other way and
\* does not repeat a failed insert; the body is validated before the lookup,
\* and the service code and the key are derived before the insert
C24_SingleLookupSingleInsert ==
    \A i \in Requests :
        reqs[i].route = "/usage" =>
            /\ reqs[i].queries \in UsageQueryOrders
            /\ reqs[i].queries # <<>> => createUsageRecordTypeIssues(reqs[i].body) = {}
            /\ reqs[i].pc = "getCustomer" => reqs[i].queries = <<>>
            /\ reqs[i].pc = "createUsageRecord" => reqs[i].queries = <<"getCustomer">>
            /\ (reqs[i].pc = "createUsageRecord" \/ Len(reqs[i].queries) = 2) =>
                   /\ reqs[i].lookup = "found"
                   /\ reqs[i].serviceCode = toServiceCode(reqs[i].body.service.s)
                   /\ reqs[i].requestId = generateRequestId(ParamsOf(i))
            /\ (reqs[i].pc = "done" /\ reqs[i].queries = <<"getCustomer">>) =>
                   reqs[i].lookup \in {"absent", "failed"}

\* a request whose only insert attempt was rejected as a duplicate, answered
C24_Witness ==
    \E i \in Requests :
        /\ reqs[i].route = "/usage"
        /\ reqs[i].pc = "done"
        /\ reqs[i].queries = <<"getCustomer", "createUsageRecord">>
        /\ reqs[i].pg.code = "23505"
        /\ reqs[i].inserted = {}

\* C25: the stored usage records only grow, each stored record staying as it
\* is, and no step removes or changes a customer
C25_RecordsOnlyGrow ==
    [][usage_records \subseteq usage_records' /\ customers \subseteq customers']_vars

\* a record is stored, a customer was created, and a request that arrived
\* after the storing request was answered has been answered too
C25_Witness ==
    /\ usage_records # {}
    /\ customers # SampleCustomers
    /\ \E i \in Requests : \E j \in Requests :
           /\ reqs[i].inserted # {}
           /\ reqs[j].pc = "done"
           /\ i \in reqs[j].after

\* C26: every stored usage record refers to a stored customer, whatever the
\* interleaving of customer creation, lookup and insert
C26_CustomerReferenceHolds ==
    \A u \in usage_records : \E c \in customers : c.id = u.customer_id

\* a record for the customer that a concurrent POST /customers created
C26_Witness ==
    \E u \in usage_records : \E i \in Requests :
        /\ u.customer_id = UuidGenerate("c", 1)
        /\ reqs[i].route = "/customers"
        /\ reqs[i].resp.status = 201
        /\ reqs[i].resp.data.id = u.customer_id

(***************************************************************************)
(* Properties of the idempotency key                                       *)
(***************************************************************************)
\* requests i and j name the same stored customer and carry the same service
\* label, units and price
SameSubmission(i, j) ==
    /\ ValidUsage(i)
    /\ ValidUsage(j)
    /\ PgUuid(reqs[i].body.customerId.s) = PgUuid(reqs[j].body.customerId.s)
    /\ reqs[i].body.service = reqs[j].body.service
    /\ reqs[i].body.unitsConsumed = reqs[j].body.unitsConsumed
    /\ reqs[i].body.pricePerUnit = reqs[j].body.pricePerUnit

\* C27: two POST /usage submissions for the same stored customer with equal
\* service label, units and price store at most one usage record between
\* them, also when the customer's UUID is written in different letter case
C27_OneRecordPerSubmission ==
    \A i \in Requests : \A j \in Requests :
        (i # j /\ SameSubmission(i, j)) =>
            Cardinality(reqs[i].inserted \cup reqs[j].inserted) <= 1

\* the parameters generateRequestId would get from the fields of a stored row
StoredParams(u) ==
    [customerId |-> u.customer_id, service |-> u.service,
     serviceCode |-> u.service_code, unitsConsumed |-> u.units_consumed,
     pricePerUnit |-> u.price_per_unit]

\* C29: every stored usage record is consistent with itself: its service code
\* is toServiceCode of its label, its units and price are positive, and its
\* request id is generateRequestId of its own stored fields
C29_RecordSelfConsistent ==
    \A u \in usage_records :
        /\ u.service_code = toServiceCode(u.service)
        /\ u.units_consumed > 0
        /\ u.price_per_unit > 0
        /\ u.request_id = generateRequestId(StoredParams(u))

\* C28: for two submissions that passed validation (serviceCode derived from
\* the label) and differ in customerId, service, unitsConsumed or
\* pricePerUnit, generateRequestId hashes different strings, also when the
\* service label holds colons
C28_ValidatedInjective ==
    (probe.done /\ probe.a # probe.b) =>
        /\ probe.dataA # probe.dataB
        /\ probe.keyA # probe.keyB

\* two labels with the same service code, one of them ending in a colon
C28_Witness ==
    /\ probe.done
    /\ probe.a.service = <<"a", ":">>
    /\ probe.b.service = <<"a">>
    /\ probe.a.serviceCode = probe.b.serviceCode
    /\ probe.a.customerId = probe.b.customerId
    /\ probe.a.unitsConsumed = probe.b.unitsConsumed
    /\ probe.a.pricePerUnit = probe.b.pricePerUnit
    /\ probe.dataA # probe.dataB

\* C30: a recordUsage call that ends by raising an error stored no usage
\* record in any of its attempts
C30_RaiseMeansNothingStored ==
    (ClientDone /\ client.method = "recordUsage" /\ client.result = "raised") =>
        \A i \in DOMAIN reqs : reqs[i].inserted = {}

(***************************************************************************)
(* Properties of error reporting                                           *)
(***************************************************************************)
\* the k-th attempt ended in a success response
SucceededAt(k) == client.outcomes[k].hasResponse /\ client.outcomes[k].status < 300

\* C31: no failure is reported as success: a call returns a value only when
\* its last attempt received a success response; a call whose last attempt
\* ended in a transport failure or an error response raises an error; a
\* request of the server in whose handling an error was thrown is answered
\* with an error body and a status of 400 or more
C31_NoFailureAsSuccess ==
    /\ ClientDone =>
           /\ client.outcomes # <<>>
           /\ client.result \in {"returned", "raised"}
           /\ client.result = "returned" =>
                  (SucceededAt(Len(client.outcomes)) /\ client.error = Null)
           /\ ~SucceededAt(Len(client.outcomes)) =>
                  (client.result = "raised" /\ client.error # Null /\ client.value = Null)
    /\ \A k \in 1..Len(client.outcomes) :
           SucceededAt(k) => (k = Len(client.outcomes) /\ ClientDone)
    /\ \A i \in DOMAIN reqs :
           reqs[i].thrown # Null =>
               /\ reqs[i].pc = "done"
               /\ reqs[i].resp.status >= 400
               /\ reqs[i].resp.bodyStatus = "error"

\* a retried call that raised on the error response of a request in whose
\* handling the server threw
C31_Witness ==
    /\ ClientDone
    /\ client.result = "raised"
    /\ Len(client.outcomes) >= 2
    /\ LastOutcome.hasResponse
    /\ reqs[AttemptSlot].thrown # Null
    /\ LastOutcome = HttpResult(reqs[AttemptSlot].resp)

\* the k-th attempt was answered 400 with an error envelope
BadRequestAt(k) ==
    /\ client.outcomes[k].hasResponse
    /\ client.outcomes[k].status = 400
    /\ HasErrorBody(client.outcomes[k].data)

\* C32: a response of status 400 with an error envelope is not retried, and
\* the call raises a ValidationError whose message is the envelope's
\* error.message and whose details hold the envelope's error.details unchanged
C32_BadRequestIsValidationError ==
    \A k \in 1..Len(client.outcomes) :
        BadRequestAt(k) =>
            /\ k = Len(client.outcomes)
            /\ client.attempts = k
            /\ ClientDone
            /\ client.result = "raised"
            /\ client.error.class = "ValidationError"
            /\ client.error.message = client.outcomes[k].data.message
            /\ client.error.details.kind = "details"
            /\ client.error.details.details = client.outcomes[k].data.details

\* a call that raised on a 400 whose envelope lists several fields
C32_Witness ==
    /\ ClientDone
    /\ BadRequestAt(Len(client.outcomes))
    /\ LastOutcome.data.details.kind = "fields"
    /\ Cardinality(LastOutcome.data.details.fields) >= 2
    /\ client.error.details.details.fields = LastOutcome.data.details.fields
    /\ client.error.message = Msg("Invalid request data", <<>>)

\* the k-th attempt was answered with a 4xx status
ClientErrorAt(k) ==
    /\ client.outcomes[k].hasResponse
    /\ client.outcomes[k].status >= 400
    /\ client.outcomes[k].status < 500

\* the call raised for the response of its k-th attempt
RaisedFor(k) ==
    /\ k = Len(client.outcomes)
    /\ ClientDone
    /\ client.result = "raised"

\* C33: a 4xx response is raised as follows.  With an error envelope and a
\* status other than 400 (409 DUPLICATE_RECORD, 404 NOT_FOUND) the error
\* carries the envelope's error.code and error.message; without an error
\* envelope the error names the status.  A 4xx that is not a retried status
\* (408, 429) always ends the call with that error
C33_ClientErrorCarriesCode ==
    \A k \in 1..Len(client.outcomes) :
        ClientErrorAt(k) =>
            LET o == client.outcomes[k]
            IN  /\ o.status \notin {408, 429} => RaisedFor(k)
                /\ (RaisedFor(k) /\ HasErrorBody(o.data) /\ o.status # 400) =>
                       /\ client.error.code = o.data.code
                       /\ client.error.message = o.data.message
                /\ (RaisedFor(k) /\ ~HasErrorBody(o.data)) =>
                       client.error.message =
                           Msg("Request failed with status %s", NatToString(o.status))

\* a retried call that raised the DUPLICATE_RECORD code of a 409
C33_Witness ==
    /\ RaisedFor(Len(client.outcomes))
    /\ Len(client.outcomes) >= 2
    /\ ClientErrorAt(Len(client.outcomes))
    /\ LastOutcome.status = 409
    /\ HasErrorBody(LastOutcome.data)
    /\ client.error.class = "Error"
    /\ client.error.code = "DUPLICATE_RECORD"

\* the SELECT of request i's customer lookup failed, and the request has
\* issued no query since
LookupQueryFailed(i) ==
    /\ reqs[i].route = "/usage"
    /\ reqs[i].queries = <<"getCustomer">>
    /\ reqs[i].pg.code # "ok"

\* C34: a POST /usage request whose customer lookup fails with a storage
\* error is answered 500 and attempts no insert: the failure is not answered
\* 404 and the request does not go on to Database.createUsageRecord
C34_LookupFailureIs500 ==
    \A i \in Requests :
        LookupQueryFailed(i) =>
            /\ reqs[i].pc = "done"
            /\ reqs[i].lookup = "failed"
            /\ reqs[i].thrown # Null
            /\ reqs[i].thrown.class = "DatabaseError"
            /\ reqs[i].resp.status = 500
            /\ reqs[i].resp.code = "DATABASE_ERROR"
            /\ reqs[i].inserted = {}

\* the lookup of a stored customer failed while another request stored a
\* record for that customer
C34_Witness ==
    \E i \in Requests : \E j \in Requests :
        /\ LookupQueryFailed(i)
        /\ reqs[i].resp.status = 500
        /\ \E c \in customers : c.id = PgUuid(reqs[i].body.customerId.s)
        /\ reqs[j].body = reqs[i].body
        /\ reqs[j].inserted # {}

\* C35: after a successful insert the stored row holds the service label
\* exactly as submitted, not its normalized form, and the submitted units;
\* the record Database.createUsageRecord returned has the customerId, service,
\* serviceCode, unitsConsumed and requestId of the stored row
C35_LabelStoredVerbatim ==
    \A i \in Requests :
        reqs[i].inserted # {} =>
            /\ Cardinality(reqs[i].inserted) = 1
            /\ reqs[i].inserted \subseteq usage_records
            /\ reqs[i].created # Null
            /\ \A u \in reqs[i].inserted :
                   /\ u.service = reqs[i].body.service.s
                   /\ u.units_consumed = reqs[i].body.unitsConsumed.n
                   /\ u.service_code = toServiceCode(reqs[i].body.service.s)
                   /\ reqs[i].created.customerId = u.customer_id
                   /\ reqs[i].created.service = u.service
                   /\ reqs[i].created.serviceCode = u.service_code
                   /\ reqs[i].created.unitsConsumed = u.units_consumed
                   /\ reqs[i].created.requestId = u.request_id
            /\ reqs[i].resp.status = 201 => reqs[i].resp.data = reqs[i].created

\* a record stored for a label that differs from its service code and from
\* its trimmed form, and one stored for a label whose code is empty
C35_Witness ==
    \E i \in Requests : \E j \in Requests :
        /\ reqs[i].inserted # {}
        /\ reqs[i].body.service.s = <<" ", "d", "b">>
        /\ reqs[i].created.service = <<" ", "d", "b">>
        /\ reqs[i].created.serviceCode = <<"D", "B">>
        /\ reqs[i].inserted \subseteq usage_records
        /\ reqs[j].inserted # {}
        /\ reqs[j].created.service = <<"!">>
        /\ reqs[j].created.serviceCode = <<>>

====
